---- MODULE Spec2Model ----
(***************************************************************************)
(* Model of src/src/service/message.ts: the MessageEncoder class, which    *)
(* encrypts and encodes messages between two parties, and its helpers      *)
(* utf8ArrayToString and filterExceptions.                                 *)
(*                                                                         *)
(* Values.  A JavaScript string is a sequence of UTF-16 code units, a      *)
(* Uint8Array a sequence of numbers in 0..255; a "Uint8Array | string"     *)
(* argument is a record [t, v] whose t says which of the two it is.  The   *)
(* completion of a call or of a primitive is a record [kind, value], kind  *)
(* "return" or "throw".                                                    *)
(*                                                                         *)
(* Convert, deriveSharedKey, encodeAesGcm and decodeAesGcm are imported    *)
(* (lines 2-4) from files that are not part of the sources at hand; they   *)
(* are modelled from their description: a Diffie-Hellman agreement in a    *)
(* small group, and an additive stream cipher with a keyed tag.            *)
(***************************************************************************)
EXTENDS Integers, Sequences, FiniteSets, TLC

VARIABLES
    privateKey,   \* this._privateKey (line 30)
    constructed,  \* what the constructor stored (line 36), kept for reference
    call,         \* the call made last: operation and arguments
    outcome,      \* how that call completed
    origin,       \* the encode call whose envelope that call was given
    prims,        \* the primitives invoked during that call, in order
    stmt,         \* completion of the statement given to filterExceptions
    branch,       \* the return line of tryDecodeDeprecated that was taken
    aead          \* what encodeAesGcm handed back during that call

vars == <<privateKey, constructed, call, outcome, origin, prims, stmt, branch, aead>>

-----------------------------------------------------------------------------
(* Bounds of the model: the longest message and the longest envelope that   *)
(* no encode call made, and the lengths of tag and initialization vector   *)
(* (fixed by the cipher; short here, and every definition below takes them *)
(* as they are given).                                                     *)

MaxMessageLen == 2
MaxEnvelopeLen == 3
TagLen == 1
IvLen == 1

-----------------------------------------------------------------------------
(* Values *)

Str(s) == [t |-> "string", v |-> s]
Bytes(b) == [t |-> "bytes", v |-> b]
Ret(v) == [kind |-> "return", value |-> v]
Throw(e) == [kind |-> "throw", value |-> e]
Error(m) == [hasMessage |-> TRUE, message |-> m]
NoResult == [kind |-> "none", value |-> <<>>]
Undefined == <<>>

SeqUpTo(S, n) == UNION {[1..k -> S] : k \in 0..n}

RECURSIVE Sum(_)
Sum(s) == IF s = <<>> THEN 0 ELSE Head(s) + Sum(Tail(s))

RECURSIVE Flatten(_)
Flatten(ss) == IF ss = <<>> THEN <<>> ELSE Head(ss) \o Flatten(Tail(ss))

\* String.prototype.includes, on messages held as sequences of words
Includes(hay, needle) ==
    \E i \in 1..(Len(hay) + 1) :
        /\ i + Len(needle) - 1 <= Len(hay)
        /\ SubSeq(hay, i, i + Len(needle) - 1) = needle

\* the value thrown when .includes is read off a value that has no message text
TypeError == Error(<<"TypeError:", "cannot", "read", "properties", "of", "undefined">>)

-----------------------------------------------------------------------------
(* Convert (imported at line 3) *)

HexChar(n) == IF n < 10 THEN 48 + n ELSE 55 + n

HexVal(c) ==
    IF c >= 48 /\ c <= 57 THEN c - 48
    ELSE IF c >= 65 /\ c <= 70 THEN c - 55
    ELSE IF c >= 97 /\ c <= 102 THEN c - 87
    ELSE -1

\* Convert.uint8ToHex: two upper-case hex digits per byte
Uint8ToHex(b) == Flatten([i \in 1..Len(b) |-> <<HexChar(b[i] \div 16), HexChar(b[i] % 16)>>])

\* Convert.isHexString: even length, every character in 0-9a-fA-F
IsHexString(s) == Len(s) % 2 = 0 /\ \A i \in 1..Len(s) : HexVal(s[i]) >= 0

\* Convert.hexToUint8: throws on a string that is not hex
HexToUint8(s) ==
    IF Len(s) % 2 # 0 THEN Throw(Error(<<"hex", "string", "has", "unexpected", "size">>))
    ELSE IF \E i \in 1..Len(s) : HexVal(s[i]) < 0 THEN Throw(Error(<<"unrecognized", "hex", "char">>))
    ELSE Ret([i \in 1..(Len(s) \div 2) |-> 16 * HexVal(s[2 * i - 1]) + HexVal(s[2 * i])])

\* the UTF-8 bytes of one code unit (the alphabet holds no surrogates)
Utf8Unit(c) ==
    IF c < 128 THEN <<c>>
    ELSE IF c < 2048 THEN <<192 + (c \div 64), 128 + (c % 64)>>
    ELSE <<224 + (c \div 4096), 128 + ((c \div 64) % 64), 128 + (c % 64)>>

\* Convert.utf8ToUint8
Utf8ToUint8(s) == Flatten([i \in 1..Len(s) |-> Utf8Unit(s[i])])

-----------------------------------------------------------------------------
(* deriveSharedKey (imported at line 4): key agreement in the group of     *)
(* units modulo GroupModulus generated by GroupGenerator.  A private key   *)
(* is <<a>>, its public key <<GroupGenerator^a>>.                          *)

GroupModulus == 11
GroupGenerator == 2

RECURSIVE ModExp(_, _)
ModExp(b, e) == IF e = 0 THEN 1 ELSE (b * ModExp(b, e - 1)) % GroupModulus

PublicKeyOf(priv) == <<ModExp(GroupGenerator, priv[1])>>

IsPoint(pub) == Len(pub) = 1 /\ pub[1] >= 1 /\ pub[1] < GroupModulus

InvalidPoint == Error(<<"deriveSharedKey:", "invalid", "point">>)

DeriveSharedKey(priv, pub) ==
    IF IsPoint(pub) THEN Ret(ModExp(pub[1], priv[1])) ELSE Throw(InvalidPoint)

-----------------------------------------------------------------------------
(* encodeAesGcm, decodeAesGcm (imported at line 2): the ciphertext is as   *)
(* long as the plaintext, the tag TagLen and the initialization vector     *)
(* IvLen bytes; the tag depends on key, vector and ciphertext.             *)

KeyStream(k, iv, i) == (k * 7 + Sum(iv) * 13 + i * 3) % 256

Cipher(k, iv, m) == [i \in 1..Len(m) |-> (m[i] + KeyStream(k, iv, i)) % 256]

Decipher(k, iv, c) == [i \in 1..Len(c) |-> (c[i] + 256 - KeyStream(k, iv, i)) % 256]

Tag(k, iv, c) == [j \in 1..TagLen |-> (k * 31 + Sum(iv) * 17 + Sum(c) * 5 + Len(c) + j) % 256]

AuthFailure == Error(<<"Unsupported", "state", "or", "unable", "to", "authenticate", "data">>)

\* hands back hex strings (line 83 concatenates them to '01'); raw keeps the bytes
EncodeAesGcm(priv, pub, message, iv) ==
    LET k == DeriveSharedKey(priv, pub) IN
    IF k.kind = "throw" THEN k
    ELSE LET c == Cipher(k.value, iv, message)
             t == Tag(k.value, iv, c)
         IN  Ret([tag |-> Uint8ToHex(t),
                  initializationVector |-> Uint8ToHex(iv),
                  cipherText |-> Uint8ToHex(c),
                  raw |-> [tag |-> t, initializationVector |-> iv, cipherText |-> c]])

\* fault: what the primitive raises on a payload too short to hold tag and vector
DecodeAesGcm(priv, pub, payload, fault) ==
    LET k == DeriveSharedKey(priv, pub) IN
    IF k.kind = "throw" THEN k
    ELSE IF Len(payload) < TagLen + IvLen THEN Throw(fault)
    ELSE LET t == SubSeq(payload, 1, TagLen)
             iv == SubSeq(payload, TagLen + 1, TagLen + IvLen)
             c == SubSeq(payload, TagLen + IvLen + 1, Len(payload))
         IN  IF t = Tag(k.value, iv, c) THEN Ret(Decipher(k.value, iv, c))
             ELSE Throw(AuthFailure)

-----------------------------------------------------------------------------
(* message.ts *)

\* lines 6-12: one character per byte, its code the byte
utf8ArrayToString(uint8Array) == [i \in 1..Len(uint8Array) |-> uint8Array[i]]

\* filterExceptions comparing the message with === where it should use includes
filterExceptionsExact(statement, exceptions) ==
    IF statement.kind = "return" THEN Ret([result |-> TRUE, message |-> statement.value])
    ELSE IF ~statement.value.hasMessage THEN Throw(statement.value)
    ELSE IF ~(\E exceptionMessage \in exceptions : statement.value.message = exceptionMessage)
         THEN Throw(statement.value)
    ELSE Ret([result |-> FALSE, message |-> Undefined])

\* filterExceptions with a catch block that never rethrows
filterExceptionsSwallowAll(statement, exceptions) ==
    IF statement.kind = "return" THEN Ret([result |-> TRUE, message |-> statement.value])
    ELSE Ret([result |-> FALSE, message |-> Undefined])

\* lines 14-24: statement is the completion of the statement it is given
filterExceptions(statement, exceptions) ==
    IF statement.kind = "return" THEN Ret([result |-> TRUE, message |-> statement.value])
    ELSE IF ~statement.value.hasMessage THEN Throw(TypeError)
    ELSE IF ~(\E exceptionMessage \in exceptions : Includes(statement.value.message, exceptionMessage))
         THEN Throw(statement.value)
    ELSE Ret([result |-> FALSE, message |-> Undefined])

\* line 59: the messages filterExceptions is told to swallow
SwallowedMessages ==
    { <<"Unsupported", "state", "or", "unable", "to", "authenticate", "data">>,
      <<"invalid", "point">> }

\* typeof x === 'string' ? Convert.hexToUint8(x) : x  (lines 36, 46, 48, 73-74, 110, 111)
Normalize(x) == IF x.t = "string" THEN HexToUint8(x.v) ELSE Ret(x.v)

\* Uint8Array.subarray(1)
Subarray1(b) == IF Len(b) = 0 THEN <<>> ELSE Tail(b)

\* encodedMessage[0]: undefined (here -1) on an empty array
First(b) == IF Len(b) = 0 THEN -1 ELSE b[1]

Quiet(out) == [out |-> out, prims |-> <<>>, stmt |-> NoResult]

\* lines 35-37
Constructor(privateKeyInput) == Normalize(privateKeyInput)

\* tryDecode testing the marker for truthiness, if (encodedMessage[0]), not for 1
tryDecodeTruthyMarker(priv, senderPublicKeyIn, encodedMessageIn, fault) ==
    LET senderPublicKey == Normalize(senderPublicKeyIn)
        encodedMessage == Normalize(encodedMessageIn)
    IN
    IF senderPublicKey.kind = "throw" THEN Quiet(senderPublicKey)
    ELSE IF encodedMessage.kind = "throw" THEN Quiet(encodedMessage)
    ELSE IF First(encodedMessage.value) > 0
    THEN LET statement == DecodeAesGcm(priv, senderPublicKey.value,
                                       Subarray1(encodedMessage.value), fault)
             filtered == filterExceptions(statement, SwallowedMessages)
             out == IF filtered.kind = "throw" THEN filtered
                    ELSE IF filtered.value.result
                    THEN Ret([isDecoded |-> TRUE,
                              message |-> Str(utf8ArrayToString(filtered.value.message))])
                    ELSE Ret([isDecoded |-> FALSE, message |-> Bytes(encodedMessage.value)])
         IN  [out |-> out, prims |-> <<"decodeAesGcm", "deriveSharedKey">>, stmt |-> statement]
    ELSE Quiet(Ret([isDecoded |-> FALSE, message |-> Bytes(encodedMessage.value)]))

\* lines 45-64
tryDecode(priv, senderPublicKeyIn, encodedMessageIn, fault) ==
    LET senderPublicKey == Normalize(senderPublicKeyIn)
        encodedMessage == Normalize(encodedMessageIn)
    IN
    IF senderPublicKey.kind = "throw" THEN Quiet(senderPublicKey)
    ELSE IF encodedMessage.kind = "throw" THEN Quiet(encodedMessage)
    ELSE IF 1 = First(encodedMessage.value)
    THEN LET statement == DecodeAesGcm(priv, senderPublicKey.value,
                                       Subarray1(encodedMessage.value), fault)
             filtered == filterExceptions(statement, SwallowedMessages)
             out == IF filtered.kind = "throw" THEN filtered
                    ELSE IF filtered.value.result
                    THEN Ret([isDecoded |-> TRUE,
                              message |-> Str(utf8ArrayToString(filtered.value.message))])
                    ELSE Ret([isDecoded |-> FALSE, message |-> Bytes(encodedMessage.value)])
         IN  [out |-> out, prims |-> <<"decodeAesGcm", "deriveSharedKey">>, stmt |-> statement]
    ELSE Quiet(Ret([isDecoded |-> FALSE, message |-> Bytes(encodedMessage.value)]))

NoAead == [tag |-> <<>>, initializationVector |-> <<>>, cipherText |-> <<>>]

\* encode joining the initialization vector before the tag
encodeVectorFirst(priv, recipientPublicKeyIn, messageIn, iv) ==
    LET recipientPublicKey == Normalize(recipientPublicKeyIn)
        message == IF messageIn.t = "string" THEN Utf8ToUint8(messageIn.v) ELSE messageIn.v
    IN
    IF recipientPublicKey.kind = "throw"
    THEN [out |-> recipientPublicKey, prims |-> <<>>, aead |-> NoAead]
    ELSE LET sealed == EncodeAesGcm(priv, recipientPublicKey.value, message, iv)
             joined == HexToUint8(<<48, 49>> \o sealed.value.initializationVector
                                  \o sealed.value.tag
                                  \o sealed.value.cipherText)
         IN  IF sealed.kind = "throw"
             THEN [out |-> sealed, prims |-> <<"encodeAesGcm", "deriveSharedKey">>, aead |-> NoAead]
             ELSE [out |-> IF joined.kind = "throw" THEN joined ELSE Ret(Bytes(joined.value)),
                   prims |-> <<"encodeAesGcm", "deriveSharedKey">>,
                   aead |-> sealed.value.raw]

\* lines 72-84
encode(priv, recipientPublicKeyIn, messageIn, iv) ==
    LET recipientPublicKey == Normalize(recipientPublicKeyIn)
        message == IF messageIn.t = "string" THEN Utf8ToUint8(messageIn.v) ELSE messageIn.v
    IN
    IF recipientPublicKey.kind = "throw"
    THEN [out |-> recipientPublicKey, prims |-> <<>>, aead |-> NoAead]
    ELSE LET sealed == EncodeAesGcm(priv, recipientPublicKey.value, message, iv)
             joined == HexToUint8(<<48, 49>> \o sealed.value.tag
                                  \o sealed.value.initializationVector
                                  \o sealed.value.cipherText)
         IN  IF sealed.kind = "throw"
             THEN [out |-> sealed, prims |-> <<"encodeAesGcm", "deriveSharedKey">>, aead |-> NoAead]
             ELSE [out |-> IF joined.kind = "throw" THEN joined ELSE Ret(Bytes(joined.value)),
                   prims |-> <<"encodeAesGcm", "deriveSharedKey">>,
                   aead |-> sealed.value.raw]

\* lines 94-99
encodeDeprecated(priv, recipientPublicKeyIn, messageIn, iv) ==
    LET encoded == encode(priv, recipientPublicKeyIn, messageIn, iv)
        encodedHexString == Uint8ToHex(Subarray1(encoded.out.value.v))
        encodedHexStringBytes == HexToUint8(encodedHexString)
    IN
    IF encoded.out.kind = "throw" THEN encoded
    ELSE IF encodedHexStringBytes.kind = "throw"
    THEN [encoded EXCEPT !.out = encodedHexStringBytes]
    ELSE [encoded EXCEPT !.out = Ret(Bytes(<<1>> \o encodedHexStringBytes.value))]

\* tryDecodeDeprecated re-forming the envelope without its marker byte
tryDecodeDeprecatedNoMarker(priv, senderPublicKeyIn, encodedMessageIn, fault) ==
    LET senderPublicKey == Normalize(senderPublicKeyIn)
        encodedMessage == Normalize(encodedMessageIn)
        encodedHexString == Uint8ToHex(Subarray1(encodedMessage.value))
        unhexed == HexToUint8(encodedHexString)
    IN
    IF senderPublicKey.kind = "throw" THEN [branch |-> "none"] @@ Quiet(senderPublicKey)
    ELSE IF encodedMessage.kind = "throw" THEN [branch |-> "none"] @@ Quiet(encodedMessage)
    ELSE IF 1 = First(encodedMessage.value) /\ IsHexString(encodedHexString)
    THEN IF unhexed.kind = "throw" THEN [branch |-> "line 116"] @@ Quiet(unhexed)
         ELSE [branch |-> "line 116"] @@
              tryDecode(priv, Bytes(senderPublicKey.value), Bytes(unhexed.value), fault)
    ELSE [branch |-> "line 119"] @@
         tryDecode(priv, Bytes(senderPublicKey.value), Bytes(encodedMessage.value), fault)

\* lines 109-120
tryDecodeDeprecated(priv, senderPublicKeyIn, encodedMessageIn, fault) ==
    LET senderPublicKey == Normalize(senderPublicKeyIn)
        encodedMessage == Normalize(encodedMessageIn)
        encodedHexString == Uint8ToHex(Subarray1(encodedMessage.value))
        unhexed == HexToUint8(encodedHexString)
    IN
    IF senderPublicKey.kind = "throw" THEN [branch |-> "none"] @@ Quiet(senderPublicKey)
    ELSE IF encodedMessage.kind = "throw" THEN [branch |-> "none"] @@ Quiet(encodedMessage)
    ELSE IF 1 = First(encodedMessage.value) /\ IsHexString(encodedHexString)
    THEN IF unhexed.kind = "throw" THEN [branch |-> "line 116"] @@ Quiet(unhexed)
         ELSE [branch |-> "line 116"] @@
              tryDecode(priv, Bytes(senderPublicKey.value), Bytes(<<1>> \o unhexed.value), fault)
    ELSE [branch |-> "line 119"] @@
         tryDecode(priv, Bytes(senderPublicKey.value), Bytes(encodedMessage.value), fault)

-----------------------------------------------------------------------------
(* Inputs *)

\* a private key as bytes, and one as the hex string "03"
PrivateKeyInputs == { Bytes(<<1>>), Str(<<48, 51>>) }

\* the public keys of the private keys 1, 3 and 2; a byte string that is no
\* point; the hex strings "08" and "0G"
PublicKeyInputs ==
    { Bytes(PublicKeyOf(<<1>>)), Bytes(PublicKeyOf(<<3>>)), Bytes(PublicKeyOf(<<2>>)),
      Bytes(<<0>>), Str(<<48, 56>>), Str(<<48, 71>>) }

\* 'A' and hiragana A (U+3042, three bytes in UTF-8); the bytes 'A' and 0xFF
TextAlphabet == { 65, 12354 }
ByteAlphabet == { 65, 255 }

MessageInputs ==
    { Str(m) : m \in SeqUpTo(TextAlphabet, MaxMessageLen) }
        \cup { Bytes(m) : m \in SeqUpTo(ByteAlphabet, MaxMessageLen) }

IvInputs == [1..IvLen -> { 0, 1 }]

\* envelopes that no encode call made: bytes over a foreign marker, the marker,
\* a byte that is a hex digit as text ('A') and one that is not; the hex strings
\* "0141", "0041" and "0G"
EnvelopeAlphabet == { 0, 1, 65, 255 }

EnvelopeInputs ==
    { Bytes(e) : e \in SeqUpTo(EnvelopeAlphabet, MaxEnvelopeLen) }
        \cup { Str(<<48, 49, 52, 49>>), Str(<<48, 48, 52, 49>>), Str(<<48, 71>>) }

\* what a primitive may raise on a payload it cannot split: the authentication
\* failure, another error, or a thrown value that carries no message
Faults ==
    { AuthFailure,
      Error(<<"Invalid", "authentication", "tag", "length">>),
      [hasMessage |-> FALSE, message |-> <<>>] }

-----------------------------------------------------------------------------
(* The codec and its caller *)

NoCall == [op |-> "none"]

Idle == call.op = "none"

\* the envelopes the caller may hand to a decode call: any input when no call
\* is pending, the envelope just made after an encode call
Offered ==
    IF Idle THEN EnvelopeInputs
    ELSE IF call.op \in {"encode", "encodeDeprecated"} /\ outcome.kind = "return"
         THEN {outcome.value}
         ELSE {}

Init ==
    /\ \E privateKeyInput \in PrivateKeyInputs :
          /\ Constructor(privateKeyInput).kind = "return"
          /\ privateKey = Constructor(privateKeyInput).value
    /\ constructed = privateKey
    /\ call = NoCall
    /\ outcome = NoResult
    /\ origin = NoCall
    /\ prims = <<>>
    /\ stmt = NoResult
    /\ branch = "none"
    /\ aead = NoAead

EncodeStep(recipientPublicKey, message, iv) ==
    LET r == encode(privateKey, recipientPublicKey, message, iv) IN
    /\ Idle
    /\ call' = [op |-> "encode", key |-> recipientPublicKey, data |-> message, aux |-> iv]
    /\ outcome' = r.out
    /\ prims' = r.prims
    /\ aead' = r.aead
    /\ origin' = NoCall
    /\ stmt' = NoResult
    /\ branch' = "none"
    /\ UNCHANGED <<privateKey, constructed>>

CallEncode ==
    \E recipientPublicKey \in PublicKeyInputs, message \in MessageInputs, iv \in IvInputs :
        EncodeStep(recipientPublicKey, message, iv)

EncodeDeprecatedStep(recipientPublicKey, message, iv) ==
    LET r == encodeDeprecated(privateKey, recipientPublicKey, message, iv) IN
    /\ Idle
    /\ call' = [op |-> "encodeDeprecated", key |-> recipientPublicKey, data |-> message, aux |-> iv]
    /\ outcome' = r.out
    /\ prims' = r.prims
    /\ aead' = r.aead
    /\ origin' = NoCall
    /\ stmt' = NoResult
    /\ branch' = "none"
    /\ UNCHANGED <<privateKey, constructed>>

CallEncodeDeprecated ==
    \E recipientPublicKey \in PublicKeyInputs, message \in MessageInputs, iv \in IvInputs :
        EncodeDeprecatedStep(recipientPublicKey, message, iv)

\* a tryDecode that stores the normalized sender key in this._privateKey
TryDecodeStepKeepsKey(senderPublicKey, encodedMessage, fault) ==
    LET r == tryDecode(privateKey, senderPublicKey, encodedMessage, fault) IN
    /\ encodedMessage \in Offered
    /\ call' = [op |-> "tryDecode", key |-> senderPublicKey, data |-> encodedMessage, aux |-> fault]
    /\ outcome' = r.out
    /\ prims' = r.prims
    /\ stmt' = r.stmt
    /\ origin' = call
    /\ branch' = "none"
    /\ aead' = NoAead
    /\ privateKey' = IF Normalize(senderPublicKey).kind = "return"
                     THEN Normalize(senderPublicKey).value
                     ELSE privateKey
    /\ UNCHANGED constructed

TryDecodeStep(senderPublicKey, encodedMessage, fault) ==
    LET r == tryDecode(privateKey, senderPublicKey, encodedMessage, fault) IN
    /\ encodedMessage \in Offered
    /\ call' = [op |-> "tryDecode", key |-> senderPublicKey, data |-> encodedMessage, aux |-> fault]
    /\ outcome' = r.out
    /\ prims' = r.prims
    /\ stmt' = r.stmt
    /\ origin' = call
    /\ branch' = "none"
    /\ aead' = NoAead
    /\ UNCHANGED <<privateKey, constructed>>

CallTryDecode ==
    \E senderPublicKey \in PublicKeyInputs, encodedMessage \in Offered, fault \in Faults :
        TryDecodeStep(senderPublicKey, encodedMessage, fault)

TryDecodeDeprecatedStep(senderPublicKey, encodedMessage, fault) ==
    LET r == tryDecodeDeprecated(privateKey, senderPublicKey, encodedMessage, fault) IN
    /\ encodedMessage \in Offered
    /\ call' = [op |-> "tryDecodeDeprecated", key |-> senderPublicKey, data |-> encodedMessage,
                aux |-> fault]
    /\ outcome' = r.out
    /\ prims' = r.prims
    /\ stmt' = r.stmt
    /\ origin' = call
    /\ branch' = r.branch
    /\ aead' = NoAead
    /\ UNCHANGED <<privateKey, constructed>>

CallTryDecodeDeprecated ==
    \E senderPublicKey \in PublicKeyInputs, encodedMessage \in Offered, fault \in Faults :
        TryDecodeDeprecatedStep(senderPublicKey, encodedMessage, fault)

\* the caller takes the outcome; the codec is ready for an unrelated call
Return ==
    /\ ~Idle
    /\ call' = NoCall
    /\ outcome' = NoResult
    /\ origin' = NoCall
    /\ prims' = <<>>
    /\ stmt' = NoResult
    /\ branch' = "none"
    /\ aead' = NoAead
    /\ UNCHANGED <<privateKey, constructed>>

Next ==
    \/ CallEncode
    \/ CallEncodeDeprecated
    \/ CallTryDecode
    \/ CallTryDecodeDeprecated
    \/ Return

Spec == Init /\ [][Next]_vars

-----------------------------------------------------------------------------
(* Properties *)

KeyGiven == Normalize(call.key).kind = "return"
EnvelopeGiven == Normalize(call.data).kind = "return"
EnvelopeBytes == Normalize(call.data).value
MessageBytes(m) == IF m.t = "string" THEN Utf8ToUint8(m.v) ELSE m.v
NotDecoded(b) == Ret([isDecoded |-> FALSE, message |-> Bytes(b)])

\* C1 (round trip): a codec that calls encode(A.public, M) and then
\* tryDecode(A.public, that envelope) gets {isDecoded: true, message: M}: the
\* text returned has exactly the characters of M (for a byte sequence M, one
\* character per byte).
C1_RoundTrip ==
    (call.op = "tryDecode" /\ origin.op = "encode" /\ call.key = origin.key)
        => /\ outcome.kind = "return"
           /\ outcome.value.isDecoded
           /\ outcome.value.message = Str(origin.data.v)

\* C2 (recognised failures): when the envelope's first byte is 1 and the
\* primitive fails with the authentication failure or with the invalid point,
\* tryDecode does not throw and returns {isDecoded: false, message: the
\* envelope bytes it was given}.
C2_RecognisedFailure ==
    (/\ call.op = "tryDecode"
     /\ stmt.kind = "throw"
     /\ stmt.value \in {AuthFailure, InvalidPoint})
        => /\ First(EnvelopeBytes) = 1
           /\ outcome = NotDecoded(EnvelopeBytes)

\* an envelope made by encode, decoded with another party's public key: the tag does not match
C2_Witness ==
    /\ call.op = "tryDecode"
    /\ origin.op = "encode"
    /\ call.key # origin.key
    /\ stmt = Throw(AuthFailure)
    /\ outcome = NotDecoded(EnvelopeBytes)

\* C3 (foreign data): given a sender public key and an envelope whose first
\* byte is not 1 (the empty envelope included), tryDecode returns
\* {isDecoded: false, message: exactly the input bytes} and invokes neither the
\* key derivation nor the decryption.
C3_ForeignPassThrough ==
    (/\ call.op = "tryDecode"
     /\ KeyGiven
     /\ EnvelopeGiven
     /\ First(EnvelopeBytes) # 1)
        => /\ outcome = NotDecoded(EnvelopeBytes)
           /\ prims = <<>>

\* a foreign marker followed by what would be a payload
C3_Witness ==
    /\ call.op = "tryDecode"
    /\ call.data = Bytes(<<255, 1, 65>>)
    /\ outcome = NotDecoded(<<255, 1, 65>>)
    /\ prims = <<>>

\* C4 (layout): what encode returns is the byte 1, then the tag, then the
\* initialization vector, then the ciphertext the primitive made, and nothing
\* else; its length is 1 + TagLen + IvLen + the length of M in bytes.
C4_EnvelopeLayout ==
    (call.op = "encode" /\ outcome.kind = "return")
        => /\ outcome.value = Bytes(<<1>> \o aead.tag \o aead.initializationVector \o aead.cipherText)
           /\ Len(aead.tag) = TagLen
           /\ Len(aead.initializationVector) = IvLen
           /\ outcome.value.v[1] = 1
           /\ Len(outcome.value.v) = 1 + TagLen + IvLen + Len(MessageBytes(call.data))

\* a one-character text of three bytes
C4_Witness ==
    /\ call.op = "encode"
    /\ call.data = Str(<<12354>>)
    /\ outcome.kind = "return"
    /\ Len(outcome.value.v) = 1 + TagLen + IvLen + 3

\* C5 (legacy round trip): a codec that calls encodeDeprecated(A.public, M)
\* and then tryDecodeDeprecated(A.public, that envelope) gets
\* {isDecoded: true, message: M}.
C5_LegacyRoundTrip ==
    (call.op = "tryDecodeDeprecated" /\ origin.op = "encodeDeprecated" /\ call.key = origin.key)
        => /\ outcome.kind = "return"
           /\ outcome.value.isDecoded
           /\ outcome.value.message = Str(origin.data.v)

\* C6 (legacy envelope): what encodeDeprecated returns differs from the
\* envelope of the encode call it is built from; after the marker come the
\* characters of the hex text of that envelope's tag, vector and ciphertext.
C6_LegacyDiffers ==
    (call.op = "encodeDeprecated" /\ outcome.kind = "return")
        => LET current == aead.tag \o aead.initializationVector \o aead.cipherText IN
           /\ outcome.value.v # <<1>> \o current
           /\ Subarray1(outcome.value.v) = Uint8ToHex(current)

\* the bytes after the marker, read as text, one character per byte
PayloadText == utf8ArrayToString(Subarray1(EnvelopeBytes))

LegacyBoundaryCase ==
    /\ call.op = "tryDecodeDeprecated"
    /\ KeyGiven
    /\ EnvelopeGiven
    /\ First(EnvelopeBytes) = 1
    /\ ~IsHexString(PayloadText)

C9_PrivateKeyKept == privateKey = constructed

\* an encode call followed by a tryDecode call that throws
C9_Witness ==
    /\ call.op = "tryDecode"
    /\ origin.op = "encode"
    /\ outcome.kind = "throw"
    /\ privateKey = constructed

\* C10 (the deprecated decoder is the current one): for every sender public
\* key and envelope tryDecodeDeprecated completes exactly as tryDecode does on
\* the same inputs, and it takes the direct fallback of line 119 only when the
\* first byte is not 1.
C10_DeprecatedIsTryDecode ==
    call.op = "tryDecodeDeprecated"
        => /\ outcome = tryDecode(privateKey, call.key, call.data, call.aux).out
           /\ (KeyGiven /\ EnvelopeGiven)
                => (branch = "line 119" <=> First(EnvelopeBytes) # 1)

\* an envelope made by encodeDeprecated, decoded by tryDecodeDeprecated through line 116
C10_Witness ==
    /\ call.op = "tryDecodeDeprecated"
    /\ origin.op = "encodeDeprecated"
    /\ branch = "line 116"
    /\ outcome.kind = "return"
    /\ outcome.value.isDecoded

====
